---- MODULE Spec2Model ----
(***************************************************************************)
(* The ThawAccount instruction builder of programs/token/ThawAccount.go.   *)
(*                                                                         *)
(* A Go slice is a header (pointer to a backing array, length); copying a  *)
(* ThawAccount value copies the two headers, not the arrays.  The backing  *)
(* arrays of Accounts slices are therefore kept in a heap, and a builder   *)
(* or a built Instruction holds the address of its array.  The setters     *)
(* never overwrite an element of a Signers array that a copy can see       *)
(* (append writes past the copy's length, or into a new array), so a       *)
(* Signers slice is kept by value.                                         *)
(*                                                                         *)
(* A runtime panic ends a call without a return value; ret.err then holds  *)
(* the panic, one of Panics, and nothing else has changed.                 *)
(*                                                                         *)
(* rpc.Client.GetTokenSupply (the second part of the module) is modelled   *)
(* with the requests its JSON-RPC client was handed.                       *)
(***************************************************************************)
EXTENDS Integers, Sequences, FiniteSets, TLC

VARIABLES heap, inst, built, ret, args, rpcClient

vars == <<heap, inst, built, ret, args, rpcClient>>

(***************************************************************************)
(* Bounds of the model.                                                    *)
(***************************************************************************)
\* longest variadic multisigSigners list passed to one SetAuthorityAccount call
MaxExtras == 2
\* cap on len(Signers) in the general specification
SignersBound == 3
\* longest tail (beyond the 3 fixed entries) of a list given to SetAccounts
MaxTail == 1
\* how far past MAX_SIGNERS the multisig specification lets Signers grow
MaxOver == 1

\* how many further setter calls a recovery may take
RecoverDepth == 3
\* how many GetTokenSupply calls a client makes
MaxCalls == 2

(***************************************************************************)
(* Program constants.                                                      *)
(***************************************************************************)
\* "max is 11" (Validate)
MAX_SIGNERS == 11
\* the token program's instruction id of ThawAccount
Instruction_ThawAccount == 11

PublicKeys == {"A", "M", "Au"}
SignerKeys == {"S1", "S2"}

(***************************************************************************)
(* *AccountMeta: a nil pointer is <<>>, a pointer to a meta is <<meta>>.   *)
(***************************************************************************)
Nil == <<>>

\* ag_solanago.Meta(pubKey): a fresh meta, neither writable nor signer
Meta(pubKey) == <<[PublicKey |-> pubKey, IsWritable |-> FALSE, IsSigner |-> FALSE]>>

\* (*AccountMeta).WRITE(): sets IsWritable and returns the meta
WRITE(meta) == <<[meta[1] EXCEPT !.IsWritable = TRUE]>>

\* (*AccountMeta).SIGNER(): sets IsSigner and returns the meta
SIGNER(meta) == <<[meta[1] EXCEPT !.IsSigner = TRUE]>>

\* sequences over S of length lo..hi
SeqsOf(S, lo, hi) == UNION {[1..n -> S] : n \in lo..hi}

\* AccountMetaSlice.SplitFrom(index) fails: the slice has fewer than index
\* entries
SplitFromFails(slice, index) == index > Len(slice)

\* AccountMetaSlice.SplitFrom(index), for a slice of at least index entries
SplitFrom(slice, index) ==
    <<SubSeq(slice, 1, index), SubSeq(slice, index + 1, Len(slice))>>

\* the address of a newly allocated backing array
Fresh(h) == CHOOSE a \in 1..(Cardinality(DOMAIN h) + 1) : a \notin DOMAIN h

\* the heap after garbage collection: only the arrays a root points to remain
Collect(h, roots) == [a \in roots |-> h[a]]

\* the backing arrays a builder and a returned instruction point to
Roots(b, i) == {b.Accounts} \cup (IF i = Nil THEN {} ELSE {i[1].Impl.Accounts})

\* the error value nil
NoError == "nil"

\* the runtime panic of an index expression s[i] with i >= len(s)
IndexOutOfRange == "panic: runtime error: index out of range"

\* the panic of SplitFrom(index) on a slice shorter than index
IndexOutOfBounds == "panic: index out of bounds"

\* the faults that end a call without a return value
Panics == {IndexOutOfRange, IndexOutOfBounds}

\* s[i] (i counted from 0, as in the code) is out of range
OutOfRange(s, i) == i >= Len(s)

\* what the caller has passed so far (history, not program state)
NoArgs == [account |-> Nil, mint |-> Nil, authority |-> Nil, signers |-> <<>>]

(***************************************************************************)
(* ThawAccount{} or new(ThawAccount): both slices nil.  A nil slice reads  *)
(* as an array of length 0.                                                *)
(***************************************************************************)
ZeroHeap == (1 :> <<>>)

ZeroThawAccount == [Accounts |-> 1, Signers |-> <<>>]

(***************************************************************************)
(* NewThawAccountInstructionBuilder: three nil slots, no signers.          *)
(***************************************************************************)
NewThawAccountInstructionBuilder ==
    /\ heap = (1 :> <<Nil, Nil, Nil>>)
    /\ inst = [Accounts |-> 1, Signers |-> <<>>]

Init ==
    /\ NewThawAccountInstructionBuilder
    /\ built = Nil
    /\ ret = [op |-> "NewThawAccountInstructionBuilder", err |-> NoError]
    /\ args = NoArgs
    /\ rpcClient = <<>>

\* the key a slot refers to: Nil for a nil slot, <<key>> otherwise
KeyOf(slot) == IF slot = Nil THEN Nil ELSE <<slot[1].PublicKey>>

(***************************************************************************)
(* The methods.  A method that writes takes the heap h and the builder obj *)
(* and yields the pair <<heap, builder>> it leaves behind.                 *)
(***************************************************************************)
\* GetAccounts with the two appends in the wrong order
GetAccountsSignersFirst(h, obj) == obj.Signers \o h[obj.Accounts]

\* ThawAccount.GetAccounts on a ThawAccount value obj, read through heap h
GetAccounts(h, obj) == h[obj.Accounts] \o obj.Signers

\* SetAccounts keeping the first 3 entries and dropping the rest
SetAccountsDropTail(h, obj, accounts) ==
    LET split == SplitFrom(accounts, 3)
        a     == Fresh(h)
    IN  <<(a :> split[1]) @@ h, [Accounts |-> a, Signers |-> <<>>]>>

\* ThawAccount.SetAccounts: the first 3 entries become the Accounts (a newly
\* allocated array), the rest the Signers
SetAccounts(h, obj, accounts) ==
    LET split == SplitFrom(accounts, 3)
        a     == Fresh(h)
    IN  <<(a :> split[1]) @@ h, [Accounts |-> a, Signers |-> split[2]]>>

\* ThawAccount.SetAccount: slot 0, writable
SetAccount(h, obj, account) ==
    <<[h EXCEPT ![obj.Accounts][1] = WRITE(Meta(account))], obj>>

\* SetMintAccount writing the slot of the account
SetMintAccountWrongSlot(h, obj, mint) ==
    <<[h EXCEPT ![obj.Accounts][1] = Meta(mint)], obj>>

\* ThawAccount.SetMintAccount: slot 1
SetMintAccount(h, obj, mint) ==
    <<[h EXCEPT ![obj.Accounts][2] = Meta(mint)], obj>>

\* SetAuthorityAccount marking the authority a signer whatever it is given
SetAuthorityAccountAlwaysSigner(h, obj, authority, multisigSigners) ==
    <<[h EXCEPT ![obj.Accounts][3] = SIGNER(Meta(authority))],
      [obj EXCEPT !.Signers =
          @ \o [i \in 1..Len(multisigSigners) |->
                   SIGNER(Meta(multisigSigners[i]))]]>>

\* SetAuthorityAccount never marking the authority a signer
SetAuthorityAccountNeverSigner(h, obj, authority, multisigSigners) ==
    <<[h EXCEPT ![obj.Accounts][3] = Meta(authority)],
      [obj EXCEPT !.Signers =
          @ \o [i \in 1..Len(multisigSigners) |->
                   SIGNER(Meta(multisigSigners[i]))]]>>

\* SetAuthorityAccount putting the multisig signers in place of the old ones
SetAuthorityAccountReplacing(h, obj, authority, multisigSigners) ==
    <<[h EXCEPT ![obj.Accounts][3] =
          IF Len(multisigSigners) = 0
          THEN SIGNER(Meta(authority))
          ELSE Meta(authority)],
      [obj EXCEPT !.Signers =
          [i \in 1..Len(multisigSigners) |->
              SIGNER(Meta(multisigSigners[i]))]]>>

\* ThawAccount.SetAuthorityAccount: slot 2, a signer only when no multisig
\* signers are given; every multisig signer is appended to Signers
SetAuthorityAccount(h, obj, authority, multisigSigners) ==
    <<[h EXCEPT ![obj.Accounts][3] =
          IF Len(multisigSigners) = 0
          THEN SIGNER(Meta(authority))
          ELSE Meta(authority)],
      [obj EXCEPT !.Signers =
          @ \o [i \in 1..Len(multisigSigners) |->
                   SIGNER(Meta(multisigSigners[i]))]]>>

\* ag_binary.TypeIDFromUint32(v, binary.LittleEndian): the 4 bytes of v
TypeIDFromUint32(v) ==
    <<v % 256, (v \div 256) % 256, (v \div 65536) % 256, (v \div 16777216) % 256>>

\* Build writing the type id in big-endian order
BuildBigEndian(obj) ==
    LET id == TypeIDFromUint32(Instruction_ThawAccount)
    IN  <<[Impl |-> obj, TypeID |-> <<id[4], id[3], id[2], id[1]>>]>>

\* ThawAccount.Build on the (copied) value obj: a pointer to a new Instruction
Build(obj) ==
    <<[Impl |-> obj, TypeID |-> TypeIDFromUint32(Instruction_ThawAccount)]>>

\* Validate naming the wrong slot in its first two checks
ValidateMisnamed(h, obj) ==
    LET Accounts == h[obj.Accounts]
    IN  IF Accounts[1] = Nil THEN "accounts.Mint is not set"
        ELSE IF Accounts[2] = Nil THEN "accounts.Account is not set"
        ELSE IF Accounts[3] = Nil THEN "accounts.Authority is not set"
        ELSE IF ~Accounts[3][1].IsSigner /\ Len(obj.Signers) = 0
             THEN "accounts.Signers is not set"
        ELSE IF Len(obj.Signers) > MAX_SIGNERS
             THEN "too many signers; got " \o ToString(Len(obj.Signers))
                     \o ", but max is 11"
        ELSE NoError

\* Validate comparing with >= where the code compares with >
ValidateOffByOne(h, obj) ==
    LET Accounts == h[obj.Accounts]
    IN  IF Accounts[1] = Nil THEN "accounts.Account is not set"
        ELSE IF Accounts[2] = Nil THEN "accounts.Mint is not set"
        ELSE IF Accounts[3] = Nil THEN "accounts.Authority is not set"
        ELSE IF ~Accounts[3][1].IsSigner /\ Len(obj.Signers) = 0
             THEN "accounts.Signers is not set"
        ELSE IF Len(obj.Signers) >= MAX_SIGNERS
             THEN "too many signers; got " \o ToString(Len(obj.Signers))
                     \o ", but max is 11"
        ELSE NoError

\* Validate without the check that somebody signs
ValidateNoSignerCheck(h, obj) ==
    LET Accounts == h[obj.Accounts]
    IN  IF Accounts[1] = Nil THEN "accounts.Account is not set"
        ELSE IF Accounts[2] = Nil THEN "accounts.Mint is not set"
        ELSE IF Accounts[3] = Nil THEN "accounts.Authority is not set"
        ELSE IF Len(obj.Signers) > MAX_SIGNERS
             THEN "too many signers; got " \o ToString(Len(obj.Signers))
                     \o ", but max is 11"
        ELSE NoError

\* ThawAccount.Validate on obj, read through heap h: the error it returns, or
\* the panic of the index expression that ends it
Validate(h, obj) ==
    LET Accounts == h[obj.Accounts]
    IN  IF OutOfRange(Accounts, 0) THEN IndexOutOfRange
        ELSE IF Accounts[1] = Nil THEN "accounts.Account is not set"
        ELSE IF OutOfRange(Accounts, 1) THEN IndexOutOfRange
        ELSE IF Accounts[2] = Nil THEN "accounts.Mint is not set"
        ELSE IF OutOfRange(Accounts, 2) THEN IndexOutOfRange
        ELSE IF Accounts[3] = Nil THEN "accounts.Authority is not set"
        ELSE IF ~Accounts[3][1].IsSigner /\ Len(obj.Signers) = 0
             THEN "accounts.Signers is not set"
        ELSE IF Len(obj.Signers) > MAX_SIGNERS
             THEN "too many signers; got " \o ToString(Len(obj.Signers))
                     \o ", but max is 11"
        ELSE NoError

\* ValidateAndBuild returning the instruction beside the error
ValidateAndBuildAlways(h, obj) == <<Build(obj), Validate(h, obj)>>

\* ThawAccount.ValidateAndBuild on obj: the pair (instruction, error) it
\* returns; a panic of Validate ends it too
ValidateAndBuild(h, obj) ==
    LET err == Validate(h, obj)
    IN  IF err # NoError THEN <<Nil, err>> ELSE <<Build(obj), NoError>>

\* MarshalWithEncoder writing the number of signers as one byte
MarshalWithEncoderSignerCount(obj) == <<Len(obj.Signers)>>

\* ThawAccount.MarshalWithEncoder: the bytes it writes to the encoder
MarshalWithEncoder(obj) == <<>>

\* ag_binary.NewBinDecoder(data): the bytes and how many of them have been read
NewBinDecoder(data) == [data |-> data, pos |-> 0]

\* ThawAccount.UnmarshalWithDecoder: the <<value, decoder, error>> it leaves
UnmarshalWithDecoder(obj, decoder) == <<obj, decoder, NoError>>

\* the fields of a ThawAccount that reach the wire: Accounts and Signers are
\* tagged bin:"-", so none
Payload(obj) == <<>>

\* Instruction.Data: the type id followed by the encoded payload
Data(instruction) == instruction.TypeID \o MarshalWithEncoder(instruction.Impl)

(***************************************************************************)
(* rpc.Client.GetTokenSupply.  rpcClient is what the JSON-RPC client has   *)
(* been asked to send, with the reply it gave to each request; reply is    *)
(* what CallFor decodes into out and returns as err.                       *)
(***************************************************************************)
\* GetTokenSupply appending the commitment whatever it is
GetTokenSupplyAlwaysCommitment(tokenMint, commitment, reply) ==
    LET params == <<tokenMint, [commitment |-> commitment]>>
    IN  [request |-> [method |-> "getTokenSupply", params |-> params],
         out |-> reply.out, err |-> reply.err]

\* Client.GetTokenSupply: the request it hands to CallFor and the (out, err)
\* it returns
GetTokenSupply(tokenMint, commitment, reply) ==
    LET params == IF commitment # ""
                  THEN <<tokenMint, [commitment |-> commitment]>>
                  ELSE <<tokenMint>>
    IN  [request |-> [method |-> "getTokenSupply", params |-> params],
         out |-> reply.out, err |-> reply.err]

(***************************************************************************)
(* The calls a user of the builder makes.  built is the instruction the    *)
(* caller got from the latest Build or ValidateAndBuild, ret the method    *)
(* called last with the error it returned, args the keys passed so far.    *)
(* An array no builder or instruction points to is collected.              *)
(***************************************************************************)
\* a call of op ended by a panic: nothing is assigned, nothing returned
Abort(op, panic) ==
    /\ ret' = [op |-> op, err |-> panic]
    /\ UNCHANGED <<heap, inst, built, args, rpcClient>>

CallSetAccounts(accounts) ==
    IF SplitFromFails(accounts, 3)
    THEN Abort("SetAccounts", IndexOutOfBounds)
    ELSE LET r == SetAccounts(heap, inst, accounts)
         IN  /\ inst' = r[2]
             /\ heap' = Collect(r[1], Roots(inst', built))
             /\ UNCHANGED <<built, rpcClient>>
             /\ ret' = [op |-> "SetAccounts", err |-> NoError]
             /\ args' = [account   |-> KeyOf(accounts[1]),
                         mint      |-> KeyOf(accounts[2]),
                         authority |-> KeyOf(accounts[3]),
                         signers   |-> [i \in 1..(Len(accounts) - 3) |->
                                           KeyOf(accounts[3 + i])]]

CallSetAccount(account) ==
    IF OutOfRange(heap[inst.Accounts], 0)
    THEN Abort("SetAccount", IndexOutOfRange)
    ELSE LET r == SetAccount(heap, inst, account)
         IN  /\ heap' = r[1]
             /\ inst' = r[2]
             /\ UNCHANGED <<built, rpcClient>>
             /\ ret' = [op |-> "SetAccount", err |-> NoError]
             /\ args' = [args EXCEPT !.account = <<account>>]

CallSetMintAccount(mint) ==
    IF OutOfRange(heap[inst.Accounts], 1)
    THEN Abort("SetMintAccount", IndexOutOfRange)
    ELSE LET r == SetMintAccount(heap, inst, mint)
         IN  /\ heap' = r[1]
             /\ inst' = r[2]
             /\ UNCHANGED <<built, rpcClient>>
             /\ ret' = [op |-> "SetMintAccount", err |-> NoError]
             /\ args' = [args EXCEPT !.mint = <<mint>>]

CallSetAuthorityAccount(authority, multisigSigners) ==
    IF OutOfRange(heap[inst.Accounts], 2)
    THEN Abort("SetAuthorityAccount", IndexOutOfRange)
    ELSE LET r == SetAuthorityAccount(heap, inst, authority, multisigSigners)
         IN  /\ heap' = r[1]
             /\ inst' = r[2]
             /\ UNCHANGED <<built, rpcClient>>
             /\ ret' = [op |-> "SetAuthorityAccount", err |-> NoError]
             /\ args' = [args EXCEPT
                           !.authority = <<authority>>,
                           !.signers = @ \o [i \in 1..Len(multisigSigners) |->
                                                <<multisigSigners[i]>>]]

\* a Validate that empties the signers of a builder it refuses
CallValidateClearing ==
    LET err == Validate(heap, inst)
    IN  /\ ret' = [op |-> "Validate", err |-> err]
        /\ inst' = IF err = NoError THEN inst ELSE [inst EXCEPT !.Signers = <<>>]
        /\ UNCHANGED <<heap, built, args, rpcClient>>

CallValidate ==
    /\ ret' = [op |-> "Validate", err |-> Validate(heap, inst)]
    /\ UNCHANGED <<heap, inst, built, args, rpcClient>>

CallBuild ==
    /\ built' = Build(inst)
    /\ heap' = Collect(heap, Roots(inst, built'))
    /\ ret' = [op |-> "Build", err |-> NoError]
    /\ UNCHANGED <<inst, args, rpcClient>>

CallValidateAndBuild ==
    LET r == ValidateAndBuild(heap, inst)
    IN  IF r[2] \in Panics
        THEN Abort("ValidateAndBuild", r[2])
        ELSE /\ built' = r[1]
             /\ heap' = Collect(heap, Roots(inst, built'))
             /\ ret' = [op |-> "ValidateAndBuild", err |-> r[2]]
             /\ UNCHANGED <<inst, args, rpcClient>>

\* the round trip of the encode/decode tests on the builder's value: encode
\* it, decode the bytes into a new value
CallEncodeDecode ==
    LET data == MarshalWithEncoder(inst)
        r    == UnmarshalWithDecoder(Payload(ZeroThawAccount), NewBinDecoder(data))
    IN  /\ ret' = [op |-> "EncodeDecode", err |-> r[3], data |-> data,
                   consumed |-> r[2].pos, got |-> r[1]]
        /\ UNCHANGED <<heap, inst, built, args, rpcClient>>

CallGetTokenSupply(tokenMint, commitment, reply) ==
    LET r == GetTokenSupply(tokenMint, commitment, reply)
    IN  /\ Len(rpcClient) < MaxCalls
        /\ rpcClient' = Append(rpcClient, [request |-> r.request, reply |-> reply])
        /\ ret' = [op |-> "GetTokenSupply", err |-> r.err, out |-> r.out,
                   tokenMint |-> tokenMint, commitment |-> commitment]
        /\ UNCHANGED <<heap, inst, built, args>>

(***************************************************************************)
(* Inputs.                                                                 *)
(***************************************************************************)
\* the variadic multisigSigners lists
MultisigInputs == SeqsOf(SignerKeys, 0, MaxExtras)

\* the account references a caller hands to SetAccounts
InputMetas == {Nil, Meta("A"), SIGNER(Meta("S1"))}

\* the flat lists handed to SetAccounts
AccountsInputs == SeqsOf(InputMetas, 3, 3 + MaxTail)

\* the three setters, with keys and multisig lists drawn from the given sets
\* and Signers capped at bound
Setters(keys, lists, bound) ==
    \/ \E account \in keys : CallSetAccount(account)
    \/ \E mint \in keys : CallSetMintAccount(mint)
    \/ \E authority \in keys, multisigSigners \in lists :
          /\ Len(inst.Signers) + Len(multisigSigners) <= bound
          /\ CallSetAuthorityAccount(authority, multisigSigners)

Calls ==
    \/ CallValidate
    \/ CallBuild
    \/ CallValidateAndBuild

\* the builder driven through its setters
Next ==
    \/ Setters(PublicKeys, MultisigInputs, SignersBound)
    \/ Calls

Spec == Init /\ [][Next]_vars

\* the builder driven through SetAccounts as well, as the instruction decoder
\* does: on a builder whose instruction, if any, the caller no longer holds
NextAccounts ==
    \/ Setters({"A"}, {<<>>, <<"S1">>}, SignersBound)
    \/ \E accounts \in AccountsInputs : built = Nil /\ CallSetAccounts(accounts)
    \/ Calls

SpecAccounts == Init /\ [][NextAccounts]_vars

\* the builder with many multisig signers
NextMultisig ==
    \/ Setters({"A"}, {<<>>, <<"S1">>, <<"S1", "S2">>}, MAX_SIGNERS + MaxOver)
    \/ CallValidate

SpecMultisig == Init /\ [][NextMultisig]_vars

\* a ThawAccount value that no constructor made
InitZero ==
    /\ heap = ZeroHeap
    /\ inst = ZeroThawAccount
    /\ built = Nil
    /\ ret = [op |-> "ThawAccount{}", err |-> NoError]
    /\ args = NoArgs
    /\ rpcClient = <<>>

\* the flat lists handed to SetAccounts, short ones among them
AnyAccountsInputs == SeqsOf(InputMetas, 0, 3 + MaxTail)

\* the builder from the constructor or from the zero value, driven through
\* the setters, SetAccounts with lists of any length, and the calls
NextAny ==
    \/ Setters({"A"}, {<<>>, <<"S1">>}, SignersBound)
    \/ \E accounts \in AnyAccountsInputs : built = Nil /\ CallSetAccounts(accounts)
    \/ Calls

SpecAny == (Init \/ InitZero) /\ [][NextAny]_vars

\* the builder's value encoded and decoded
NextCodec ==
    \/ Setters(PublicKeys, {<<>>, <<"S1">>}, SignersBound)
    \/ CallBuild
    \/ CallEncodeDecode

SpecCodec == Init /\ [][NextCodec]_vars

\* the CommitmentType values a caller passes, the empty one among them
Commitments == {"", "finalized", "confirmed"}

\* what CallFor can leave in out (nil, or a decoded result) and return as err
Replies == [out : {Nil, <<[Value |-> "1000"]>>}, err : {NoError, "rpc error"}]

\* a client asked for the supply of mints
NextRpc ==
    \E tokenMint \in PublicKeys, commitment \in Commitments, reply \in Replies :
        CallGetTokenSupply(tokenMint, commitment, reply)

SpecRpc == Init /\ [][NextRpc]_vars

(***************************************************************************)
(* The claims.                                                             *)
(***************************************************************************)
\* the fixed slots of the builder
Slots == heap[inst.Accounts]

\* the error Validate gives for a nil slot i
MissingAccount(i) ==
    CASE i = 1 -> "accounts.Account is not set"
      [] i = 2 -> "accounts.Mint is not set"
      [] i = 3 -> "accounts.Authority is not set"

\* C1: in every state the setters reach, GetAccounts is the three fixed slots
\* in declared order (account, mint, authority: each nil or holding the key
\* last given for it) followed by the signers in the order they were
\* appended, 3 + len(Signers) entries in all.
C1_AccountOrdering ==
    LET accounts == GetAccounts(heap, inst)
    IN  /\ Len(accounts) = 3 + Len(inst.Signers)
        /\ [i \in 1..Len(accounts) |-> KeyOf(accounts[i])]
              = <<args.account, args.mint, args.authority>> \o args.signers
        /\ \A i \in 1..Len(inst.Signers) : accounts[3 + i] = inst.Signers[i]

\* the three slots set to different keys, two different signers appended
C1_Witness ==
    /\ args.account = <<"A">> /\ args.mint = <<"M">> /\ args.authority = <<"Au">>
    /\ args.signers = <<(<<"S2">>), (<<"S1">>)>>
    /\ Len(GetAccounts(heap, inst)) = 5

\* C2: ValidateAndBuild returns the error Validate gives on the same builder;
\* with an error it returns no instruction, without one the built instruction.
C2_ValidateAndBuildIffValid ==
    ret.op = "ValidateAndBuild" =>
        /\ ret.err = Validate(heap, inst)
        /\ ret.err # NoError => built = Nil
        /\ ret.err = NoError => built # Nil /\ built = Build(inst)

\* ValidateAndBuild has failed on a builder with nobody to sign
C2_Witness ==
    /\ ret.op = "ValidateAndBuild"
    /\ ret.err = "accounts.Signers is not set"
    /\ built = Nil

\* C3: with a nil fixed slot Validate fails with the missing-account error of
\* a slot that is nil; so it does on the new builder.
C3_MissingAccount ==
    ret.op = "Validate" /\ (\E i \in 1..3 : Slots[i] = Nil) =>
        \E i \in 1..3 : Slots[i] = Nil /\ ret.err = MissingAccount(i)

\* Validate has named the mint of a builder whose account is set and whose
\* mint and authority are not
C3_Witness ==
    /\ ret.op = "Validate"
    /\ Slots[1] # Nil /\ Slots[2] = Nil /\ Slots[3] = Nil
    /\ ret.err = "accounts.Mint is not set"

\* C4: with the three slots set, Validate fails with the too-many-signers
\* error on more than 11 signers and passes on exactly 11.
C4_MultisigThreshold ==
    ret.op = "Validate" /\ (\A i \in 1..3 : Slots[i] # Nil) =>
        /\ Len(inst.Signers) > 11 =>
              ret.err = "too many signers; got " \o ToString(Len(inst.Signers))
                           \o ", but max is 11"
        /\ Len(inst.Signers) = 11 => ret.err = NoError

\* Validate has refused 12 signers
C4_Witness ==
    /\ ret.op = "Validate"
    /\ \A i \in 1..3 : Slots[i] # Nil
    /\ Len(inst.Signers) = 12
    /\ ret.err = "too many signers; got 12, but max is 11"

\* C5: with the three slots set, the authority no signer and no signers,
\* Validate fails with the missing-signer error.
C5_MissingSigner ==
    /\ ret.op = "Validate"
    /\ \A i \in 1..3 : Slots[i] # Nil
    /\ ~Slots[3][1].IsSigner
    /\ inst.Signers = <<>>
    => ret.err = "accounts.Signers is not set"

\* Validate has refused what SetAccounts made of three references, the third
\* no signer
C5_Witness ==
    /\ ret.op = "Validate"
    /\ args.signers = <<>>
    /\ \A i \in 1..3 : Slots[i] # Nil
    /\ ~Slots[3][1].IsSigner
    /\ ret.err = "accounts.Signers is not set"

\* the reference a setter makes of a key
Ref(key, writable, signer) ==
    <<[PublicKey |-> key, IsWritable |-> writable, IsSigner |-> signer]>>

\* after SetAuthorityAccount(authority, extras): with extras the authority
\* slot is (authority, not writable, no signer) and the extras are appended in
\* order as (key, not writable, signer); without, the slot is a signer
C6_Step ==
    \A authority \in PublicKeys, extras \in MultisigInputs :
        ( /\ ret'.op = "SetAuthorityAccount"
          /\ args'.authority = <<authority>>
          /\ Len(args'.signers) = Len(args.signers) + Len(extras)
          /\ CallSetAuthorityAccount(authority, extras) ) =>
            LET slot == heap'[inst'.Accounts][3]
            IN  /\ extras # <<>> =>
                      /\ slot = Ref(authority, FALSE, FALSE)
                      /\ inst'.Signers = inst.Signers \o
                            [i \in 1..Len(extras) |-> Ref(extras[i], FALSE, TRUE)]
                /\ extras = <<>> =>
                      /\ KeyOf(slot) = <<authority>>
                      /\ slot[1].IsSigner

\* account, mint, authority and the extras S1, S2 on a new builder: 5
\* accounts, the last two (S1, not writable, signer), (S2, not writable, signer)
C6_Scenario ==
    /\ args.account # Nil /\ args.mint # Nil /\ args.authority # Nil
    /\ args.signers = <<(<<"S1">>), (<<"S2">>)>>
    => LET accounts == GetAccounts(heap, inst)
       IN  /\ Len(accounts) = 5
           /\ accounts[4] = Ref("S1", FALSE, TRUE)
           /\ accounts[5] = Ref("S2", FALSE, TRUE)

\* C6: every SetAuthorityAccount call leaves the authority slot and the
\* signers as C6_Step says, and the scenario with two extras gives the 5
\* accounts of C6_Scenario.
C6_SetAuthorityAccount == []C6_Scenario /\ [][C6_Step]_vars

\* SetAuthorityAccount(Au, S1, S2) has been called on a builder with account
\* and mint
C6_Witness ==
    /\ ret.op = "SetAuthorityAccount"
    /\ args = [account |-> <<"A">>, mint |-> <<"M">>, authority |-> <<"Au">>,
               signers |-> <<(<<"S1">>), (<<"S2">>)>>]
    /\ Slots[3] = Ref("Au", FALSE, FALSE)
    /\ Len(GetAccounts(heap, inst)) = 5

\* C7: account A, mint M, authority Au without multisig signers on a new
\* builder pass Validate and build an instruction with the accounts
\* (A, writable), (M), (Au, signer) and the 4 bytes of the ThawAccount
\* discriminant, little-endian, as its data; every built instruction carries
\* that discriminant.
C7_ThawScenario ==
    /\ built # Nil =>
          /\ built[1].TypeID = <<Instruction_ThawAccount, 0, 0, 0>>
          /\ Data(built[1]) = <<Instruction_ThawAccount, 0, 0, 0>>
    /\ ( /\ ret.op = "ValidateAndBuild"
         /\ args = [account |-> <<"A">>, mint |-> <<"M">>,
                    authority |-> <<"Au">>, signers |-> <<>>] )
       => /\ ret.err = NoError
          /\ Validate(heap, inst) = NoError
          /\ built # Nil
          /\ GetAccounts(heap, built[1].Impl) =
                <<Ref("A", TRUE, FALSE), Ref("M", FALSE, FALSE), Ref("Au", FALSE, TRUE)>>

\* ValidateAndBuild has built the instruction of the scenario
C7_Witness ==
    /\ ret.op = "ValidateAndBuild"
    /\ args = [account |-> <<"A">>, mint |-> <<"M">>,
               authority |-> <<"Au">>, signers |-> <<>>]
    /\ built # Nil
    /\ Len(Data(built[1])) = 4

\* C8: a setter called again with the arguments of the call just made leaves
\* the builder (fixed slots and signers) as that call left it.
C8_Idempotent ==
    [][ /\ \A account \in PublicKeys :
              CallSetAccount(account) =>
                  SetAccount(heap', inst', account) = <<heap', inst'>>
        /\ \A mint \in PublicKeys :
              CallSetMintAccount(mint) =>
                  SetMintAccount(heap', inst', mint) = <<heap', inst'>>
        /\ \A authority \in PublicKeys, extras \in MultisigInputs :
              CallSetAuthorityAccount(authority, extras) =>
                  SetAuthorityAccount(heap', inst', authority, extras)
                     = <<heap', inst'>> ]_vars

\* C9: an instruction is returned only from a builder that passes Validate.
C9_OnlyValidated ==
    ret.op \in {"Build", "ValidateAndBuild"} /\ built # Nil =>
        Validate(heap, inst) = NoError

\* C9, amended: ValidateAndBuild returns an instruction only from a builder
\* that passes Validate; Build returns one from any builder.
C9_OnlyValidateAndBuildValidates ==
    /\ ret.op = "ValidateAndBuild" /\ built # Nil => Validate(heap, inst) = NoError
    /\ ret.op = "Build" => built # Nil /\ built[1].Impl = inst

\* Build has returned an instruction of a builder that fails Validate
C9_Witness ==
    /\ ret.op = "Build"
    /\ built # Nil
    /\ Validate(heap, inst) # NoError

\* C10: while the caller holds an instruction, no call on the builder changes
\* the accounts the instruction reports.
C10_InstructionImmutable ==
    [][ built # Nil /\ built' = built =>
          GetAccounts(heap', built[1].Impl) = GetAccounts(heap, built[1].Impl) ]_vars

\* some sequence of at most n setter calls leads from <<h, obj>> to a builder
\* that passes Validate
RECURSIVE CanRecover(_, _, _)
CanRecover(h, obj, n) ==
    \/ Validate(h, obj) = NoError
    \/ /\ n > 0
       /\ \/ LET r == SetAccount(h, obj, "A") IN CanRecover(r[1], r[2], n - 1)
          \/ LET r == SetMintAccount(h, obj, "M") IN CanRecover(r[1], r[2], n - 1)
          \/ \E extras \in {<<>>, <<"S1">>} :
                LET r == SetAuthorityAccount(h, obj, "Au", extras)
                IN  CanRecover(r[1], r[2], n - 1)

\* C11: from every state the setters reach where Validate fails, some further
\* setter calls lead to a state where Validate succeeds.
C11_Recoverable ==
    Validate(heap, inst) # NoError => CanRecover(heap, inst, RecoverDepth)

ListOf(keys) ==
    [i \in 1..Len(keys) |-> CHOOSE m \in InputMetas : KeyOf(m) = keys[i]]

C14_ShortListIsError ==
    [][ ret'.op = "SetAccounts" =>
          \A L \in SeqsOf(InputMetas, 0, 2) :
              CallSetAccounts(L) => ret'.err \notin Panics \cup {NoError} ]_vars

\* C15: Validate and ValidateAndBuild return success or an error and never
\* end in a panic.
C15_ValidateReturns ==
    ret.op \in {"Validate", "ValidateAndBuild"} => ret.err \notin Panics

\* C16: a Validate call leaves every fixed slot and the signers as they were,
\* and the outcome it returned is the outcome of Validate on the builder as
\* it is now: Validate called again, any number of times, returns the same.
C16_ValidatePure ==
    /\ [](ret.op = "Validate" => ret.err = Validate(heap, inst))
    /\ [][ ret'.op = "Validate" =>
             /\ heap'[inst'.Accounts] = heap[inst.Accounts]
             /\ inst'.Signers = inst.Signers
             /\ built' = built ]_vars

\* Validate has refused a builder that has its account, no mint and one signer
C16_Witness ==
    /\ ret.op = "Validate"
    /\ ret.err = "accounts.Mint is not set"
    /\ Slots[1] = WRITE(Meta("A"))
    /\ Len(inst.Signers) = 1

\* C17: SetAccount replaces slot 0 alone, with the address writable and no
\* signer; SetMintAccount replaces slot 1 alone, with the address neither
\* writable nor signer; both leave the signers as they were;
\* SetAuthorityAccount leaves slots 0 and 1 as they were.
C17_OneSlot ==
    [][ LET old == heap[inst.Accounts]
            new == heap'[inst'.Accounts]
        IN  /\ ret'.op = "SetAccount" =>
                  /\ new[1] = Ref(args'.account[1], TRUE, FALSE)
                  /\ new[2] = old[2] /\ new[3] = old[3]
                  /\ Len(new) = 3
                  /\ inst'.Signers = inst.Signers
            /\ ret'.op = "SetMintAccount" =>
                  /\ new[2] = Ref(args'.mint[1], FALSE, FALSE)
                  /\ new[1] = old[1] /\ new[3] = old[3]
                  /\ Len(new) = 3
                  /\ inst'.Signers = inst.Signers
            /\ ret'.op = "SetAuthorityAccount" =>
                  /\ new[1] = old[1] /\ new[2] = old[2]
                  /\ Len(new) = 3 ]_vars

\* SetMintAccount has set the mint of a builder that has its account, its
\* authority and two signers
C17_Witness ==
    /\ ret.op = "SetMintAccount"
    /\ Slots[1] = Ref("A", TRUE, FALSE)
    /\ Slots[2] = Ref("M", FALSE, FALSE)
    /\ Slots[3] = Ref("Au", FALSE, FALSE)
    /\ Len(inst.Signers) = 2

\* C18: through the three setters, an authority slot that is set is a signer
\* or there are signers; so Validate and ValidateAndBuild never give the
\* missing-signer error, only a missing account or too many signers.
C18_SomebodySigns ==
    /\ Slots[3] # Nil => Slots[3][1].IsSigner \/ inst.Signers # <<>>
    /\ Validate(heap, inst) \in
          {NoError} \cup {MissingAccount(i) : i \in 1..3}
             \cup {"too many signers; got " \o ToString(Len(inst.Signers))
                      \o ", but max is 11"}
    /\ ret.op \in {"Validate", "ValidateAndBuild"} =>
          ret.err # "accounts.Signers is not set"

\* Validate has passed a builder whose authority is no signer and that has
\* one multisig signer
C18_Witness ==
    /\ ret.op = "Validate"
    /\ ret.err = NoError
    /\ ~Slots[3][1].IsSigner
    /\ Len(inst.Signers) = 1

\* C19: after a call of a setter the signers before it are a prefix of the
\* signers after it (their number never decreases), and a SetAuthorityAccount
\* call without multisig signers marks the authority a signer and keeps all
\* the signers in the account list.
C19_SignersAppendOnly ==
    [][ ret'.op \in {"SetAccount", "SetMintAccount", "SetAuthorityAccount"} =>
          /\ Len(inst.Signers) <= Len(inst'.Signers)
          /\ SubSeq(inst'.Signers, 1, Len(inst.Signers)) = inst.Signers
          /\ ret'.op = "SetAuthorityAccount" /\ args'.signers = args.signers =>
                /\ heap'[inst'.Accounts][3] = Ref(args'.authority[1], FALSE, TRUE)
                /\ SubSeq(GetAccounts(heap', inst'), 4, 3 + Len(inst.Signers))
                      = inst.Signers
                /\ Len(GetAccounts(heap', inst')) = 3 + Len(inst.Signers) ]_vars

\* SetAuthorityAccount without multisig signers has been called on a builder
\* that has two signers
C19_Witness ==
    /\ ret.op = "SetAuthorityAccount"
    /\ Slots[3] = Ref("Au", FALSE, TRUE)
    /\ inst.Signers = <<Ref("S1", FALSE, TRUE), Ref("S2", FALSE, TRUE)>>
    /\ Len(GetAccounts(heap, inst)) = 5

\* C20: a GetTokenSupply call sends one request, "getTokenSupply", with the
\* parameters [tokenMint] when the commitment is empty and
\* [tokenMint, {commitment}] when it is not, and returns the out and err of
\* the reply to that request.
C20_GetTokenSupply ==
    /\ [](ret.op = "GetTokenSupply" =>
            LET sent == rpcClient[Len(rpcClient)]
            IN  /\ sent.request.method = "getTokenSupply"
                /\ sent.request.params[1] = ret.tokenMint
                /\ ret.commitment = "" => sent.request.params = <<ret.tokenMint>>
                /\ ret.commitment # "" =>
                      sent.request.params =
                         <<ret.tokenMint, [commitment |-> ret.commitment]>>
                /\ ret.out = sent.reply.out
                /\ ret.err = sent.reply.err)
    /\ [][ret'.op = "GetTokenSupply" =>
             /\ Len(rpcClient') = Len(rpcClient) + 1
             /\ SubSeq(rpcClient', 1, Len(rpcClient)) = rpcClient]_vars

\* a call with a commitment has failed after a call without one has succeeded
C20_Witness ==
    /\ ret.op = "GetTokenSupply"
    /\ Len(rpcClient) = 2
    /\ rpcClient[1].request.params = <<"M">>
    /\ rpcClient[1].reply.err = NoError
    /\ rpcClient[2].request.params = <<"M", [commitment |-> "finalized"]>>
    /\ ret.err = "rpc error"
====
